---- MODULE Spec2Model ----
(***************************************************************************)
(* PySciPlotTK: the EasyPlotter facade (pysciplottk/easyplotter.py), the   *)
(* style registry (pysciplottk/formatting.py) and the size registry        *)
(* (pysciplottk/sizes.py).                                                 *)
(*                                                                         *)
(* Representation.  A Python str that the code splits is a tuple of one-   *)
(* character strings; a str that is only stored or concatenated is a TLA+  *)
(* string.  A Python number from the size tables is the pair <<n, d>>      *)
(* standing for n/d (243./72. is <<243, 72>>, 0.4 is <<4, 10>>).  None is  *)
(* the empty tuple.  A raised exception is the name of its Python class.   *)
(***************************************************************************)
EXTENDS Integers, Sequences, FiniteSets, TLC

VARIABLES rcParams, plotters, nfigures, printed, ncalls, last, threads

vars == <<rcParams, plotters, nfigures, printed, ncalls, last, threads>>

-----------------------------------------------------------------------------
(* Bounds of the model *)

MaxPlotters == 2
MaxCalls == 4
MaxTokens == 3
MaxArgv == 5

-----------------------------------------------------------------------------
(* Values *)

None == <<>>

latex == <<"l", "a", "t", "e", "x">>
matlab == <<"m", "a", "t", "l", "a", "b">>
revtex == <<"r", "e", "v", "t", "e", "x">>
a0poster == <<"a", "0", "p", "o", "s", "t", "e", "r">>
bogus == <<"b", "o", "g", "u", "s">>

ValueError == "ValueError"
KeyError == "KeyError"
AttributeError == "AttributeError"
UnboundLocalError == "UnboundLocalError"
NoError == "ok"

Raised(e) == [err |-> e, val |-> None]
Returned(v) == [err |-> NoError, val |-> v]

-----------------------------------------------------------------------------
(* str.split(',') and ','.join *)

\* Variant of split: str.split(',', 1), which splits at the first comma only.
split_first_comma(s) ==
    LET commas == {i \in DOMAIN s : s[i] = ","} IN
    IF commas = {} THEN <<s>>
    ELSE LET k == CHOOSE i \in commas : \A j \in commas : i <= j
         IN  <<SubSeq(s, 1, k - 1), SubSeq(s, k + 1, Len(s))>>

RECURSIVE split(_)
split(s) ==
    IF s = <<>> THEN << <<>> >>
    ELSE LET rest == split(Tail(s)) IN
         IF Head(s) = ","
         THEN << <<>> >> \o rest
         ELSE << <<Head(s)>> \o Head(rest) >> \o Tail(rest)

RECURSIVE join(_)
join(tokens) ==
    IF Len(tokens) = 1 THEN Head(tokens)
    ELSE Head(tokens) \o <<",">> \o join(Tail(tokens))

-----------------------------------------------------------------------------
(* pysciplottk/sizes.py *)

SizesRevtex ==
    [size_name |-> revtex,
     normal_figure_width |-> <<243, 72>>,
     normal_figure_default_height |-> <<2, 1>>,
     wide_figure_width |-> <<482, 72>>,
     wide_figure_default_height |-> <<4, 1>>,
     fontsize |-> (matlab :> <<7, 1>>) @@ (latex :> <<8, 1>>),
     titlesize |-> (matlab :> <<8, 1>>) @@ (latex :> <<9, 1>>),
     linewidth |-> (matlab :> <<4, 10>>) @@ (latex :> <<4, 10>>)]

SizesA0poster ==
    [size_name |-> a0poster,
     normal_figure_width |-> <<700, 72>>,
     normal_figure_default_height |-> <<500, 72>>,
     wide_figure_width |-> <<1400, 72>>,
     wide_figure_default_height |-> <<500, 72>>,
     fontsize |-> (matlab :> <<14, 1>>) @@ (latex :> <<16, 1>>),
     titlesize |-> (matlab :> <<16, 1>>) @@ (latex :> <<18, 1>>),
     linewidth |-> (matlab :> <<1, 1>>) @@ (latex :> <<1, 1>>)]

intensive_properties(self, format_name) ==
    <<self.fontsize[format_name],
      self.titlesize[format_name],
      self.linewidth[format_name]>>

\* inspect.getmembers lists the module's classes sorted by name; SizesBase
\* itself is skipped by the loop.
SizesMembers == <<SizesA0poster, SizesRevtex>>

\* Variant of get_size_class: an unknown name falls back to the revtex sizes
\* instead of raising.
get_size_class_fallback(size_name) ==
    LET hits == {i \in DOMAIN SizesMembers :
                    SizesMembers[i].size_name = size_name}
    IN  IF hits = {} THEN Returned(SizesRevtex)
        ELSE Returned(SizesMembers[CHOOSE i \in hits : \A j \in hits : i <= j])

get_size_class(size_name) ==
    LET hits == {i \in DOMAIN SizesMembers :
                    SizesMembers[i].size_name = size_name}
    IN  IF hits = {} THEN Raised(KeyError)
        ELSE Returned(SizesMembers[CHOOSE i \in hits : \A j \in hits : i <= j])

-----------------------------------------------------------------------------
(* pysciplottk/formatting.py *)

\* matplotlib.rcParams as the library ships it, before any style is applied
\* (the keys the styles write; the values are the library's, not this
\* repository's).
rcParamsDefault ==
    [k \in {"lines.linewidth", "patch.linewidth", "axes.linewidth",
            "axes.titlesize", "grid.linewidth", "font.size", "font.family",
            "xtick.major.width", "xtick.minor.width", "text.usetex",
            "font.serif", "font.monospace"} |->
        CASE k = "lines.linewidth" -> <<3, 2>>
          [] k = "patch.linewidth" -> <<1, 1>>
          [] k = "axes.linewidth" -> <<8, 10>>
          [] k = "axes.titlesize" -> <<"large">>
          [] k = "grid.linewidth" -> <<8, 10>>
          [] k = "font.size" -> <<10, 1>>
          [] k = "font.family" -> <<"sans-serif">>
          [] k = "xtick.major.width" -> <<8, 10>>
          [] k = "xtick.minor.width" -> <<6, 10>>
          [] k = "text.usetex" -> FALSE
          [] k = "font.serif" -> <<"DejaVu Serif">>
          [] k = "font.monospace" -> <<"DejaVu Sans Mono">>]

\* The latex writes with the base font size taken from the title size.
FormattingLatex_fontsize_from_titlesize(sizes) ==
    LET p == intensive_properties(sizes, latex)
        fontsize == p[1]
        titlesize == p[2]
        linewidth == p[3]
    IN  << <<"lines.linewidth", linewidth>>,
           <<"patch.linewidth", linewidth>>,
           <<"axes.linewidth", linewidth>>,
           <<"axes.titlesize", titlesize>>,
           <<"grid.linewidth", linewidth>>,
           <<"font.size", titlesize>>,
           <<"font.family", <<"serif">> >>,
           <<"xtick.major.width", linewidth>>,
           <<"xtick.minor.width", linewidth>>,
           <<"text.usetex", TRUE>>,
           <<"font.serif", <<"Computer Modern Roman">> >>,
           <<"font.monospace", <<"Computer Modern Typewriter">> >> >>

\* The assignments of FormattingLatex.set_matplotlib_global_parameters, in
\* program order, each as <<key, value>>.
FormattingLatex_set_matplotlib_global_parameters(sizes) ==
    LET p == intensive_properties(sizes, latex)
        fontsize == p[1]
        titlesize == p[2]
        linewidth == p[3]
    IN  << <<"lines.linewidth", linewidth>>,
           <<"patch.linewidth", linewidth>>,
           <<"axes.linewidth", linewidth>>,
           <<"axes.titlesize", titlesize>>,
           <<"grid.linewidth", linewidth>>,
           <<"font.size", fontsize>>,
           <<"font.family", <<"serif">> >>,
           <<"xtick.major.width", linewidth>>,
           <<"xtick.minor.width", linewidth>>,
           <<"text.usetex", TRUE>>,
           <<"font.serif", <<"Computer Modern Roman">> >>,
           <<"font.monospace", <<"Computer Modern Typewriter">> >> >>

\* Variant of the matlab assignments: the two writes of axes.titlesize in
\* the other order, so that the font size is written last.
FormattingMatlab_titlesize_then_fontsize(sizes) ==
    LET p == intensive_properties(sizes, matlab)
        fontsize == p[1]
        titlesize == p[2]
        linewidth == p[3]
    IN  << <<"lines.linewidth", linewidth>>,
           <<"patch.linewidth", linewidth>>,
           <<"axes.linewidth", linewidth>>,
           <<"axes.titlesize", titlesize>>,
           <<"grid.linewidth", linewidth>>,
           <<"font.size", fontsize>>,
           <<"axes.titlesize", fontsize>> >>

\* Variant of the matlab assignments: the style also writes its own tick
\* widths, font family and typesetting mode, as the latex style does.
FormattingMatlab_writes_all_keys(sizes) ==
    LET p == intensive_properties(sizes, matlab)
        fontsize == p[1]
        titlesize == p[2]
        linewidth == p[3]
    IN  << <<"lines.linewidth", linewidth>>,
           <<"patch.linewidth", linewidth>>,
           <<"axes.linewidth", linewidth>>,
           <<"axes.titlesize", fontsize>>,
           <<"grid.linewidth", linewidth>>,
           <<"font.size", fontsize>>,
           <<"axes.titlesize", titlesize>>,
           <<"font.family", <<"sans-serif">> >>,
           <<"xtick.major.width", linewidth>>,
           <<"xtick.minor.width", linewidth>>,
           <<"text.usetex", FALSE>> >>

\* The assignments of FormattingMatlab.set_matplotlib_global_parameters, in
\* program order: axes.titlesize is written twice.
FormattingMatlab_set_matplotlib_global_parameters(sizes) ==
    LET p == intensive_properties(sizes, matlab)
        fontsize == p[1]
        titlesize == p[2]
        linewidth == p[3]
    IN  << <<"lines.linewidth", linewidth>>,
           <<"patch.linewidth", linewidth>>,
           <<"axes.linewidth", linewidth>>,
           <<"axes.titlesize", fontsize>>,
           <<"grid.linewidth", linewidth>>,
           <<"font.size", fontsize>>,
           <<"axes.titlesize", titlesize>> >>

FormattingLatex == [format_name |-> latex, class |-> "FormattingLatex"]
FormattingMatlab == [format_name |-> matlab, class |-> "FormattingMatlab"]

\* Method dispatch on the formatting object's class.
set_matplotlib_global_parameters(self, sizes) ==
    IF self.class = "FormattingLatex"
    THEN FormattingLatex_set_matplotlib_global_parameters(sizes)
    ELSE FormattingMatlab_set_matplotlib_global_parameters(sizes)

\* matplotlib.rcParams[key] = value, one assignment after the other.
RECURSIVE ApplyWrites(_, _)
ApplyWrites(rc, writes) ==
    IF writes = <<>> THEN rc
    ELSE ApplyWrites([rc EXCEPT ![Head(writes)[1]] = Head(writes)[2]],
                     Tail(writes))

\* inspect.getmembers order; FormattingBase itself is skipped by the loop.
FormattingMembers == <<FormattingLatex, FormattingMatlab>>

get_formatting_class(format_name) ==
    LET hits == {i \in DOMAIN FormattingMembers :
                    FormattingMembers[i].format_name = format_name}
    IN  IF hits = {} THEN Raised(KeyError)
        ELSE Returned(FormattingMembers[CHOOSE i \in hits :
                                            \A j \in hits : i <= j])

-----------------------------------------------------------------------------
(* pysciplottk/easyplotter.py: class EasyPlotter *)

\* Declared defaults of the keyword parameters.
init_default_output_formatting == join(<<latex, revtex>>)
init_default_flag == "default"
from_argv_default_formatting == latex
from_argv_default_type == "pdf"
from_argv_default_flag == "default"
save_default_dpi == 300

\* Variant of __init__: the style is applied as soon as it has resolved,
\* with the default (revtex) sizes, and again once the size has resolved.
EasyPlotter_init_style_first(rc, output_fname, output_formatting, flag) ==
    LET parts == split(output_formatting) IN
    IF Len(parts) # 2
    THEN [err |-> ValueError, self |-> None, rc |-> rc]
    ELSE
    LET formatting == get_formatting_class(parts[1]) IN
    IF formatting.err # NoError
    THEN [err |-> formatting.err, self |-> None, rc |-> rc]
    ELSE
    LET size == get_size_class(parts[2])
        early == ApplyWrites(rc,
                    set_matplotlib_global_parameters(formatting.val,
                                                     SizesRevtex))
    IN
    IF size.err # NoError
    THEN [err |-> size.err, self |-> None, rc |-> early]
    ELSE [err |-> NoError,
          self |-> << [output_format |-> parts[1],
                       output_size |-> parts[2],
                       output_fname |-> output_fname,
                       flag |-> flag,
                       figure |-> None,
                       formatting |-> formatting.val,
                       size |-> size.val] >>,
          rc |-> ApplyWrites(early,
                    set_matplotlib_global_parameters(formatting.val,
                                                     size.val))]

\* EasyPlotter.__init__ run against the global configuration rc: the
\* exception it raises (or NoError), the object it leaves (self) and the
\* global configuration after it.  The tuple assignment from split(',')
\* raises ValueError unless split returns exactly two items.
EasyPlotter_init(rc, output_fname, output_formatting, flag) ==
    LET parts == split(output_formatting) IN
    IF Len(parts) # 2
    THEN [err |-> ValueError, self |-> None, rc |-> rc]
    ELSE
    LET output_format == parts[1]
        output_size == parts[2]
        formatting == get_formatting_class(output_format)
    IN
    IF formatting.err # NoError
    THEN [err |-> formatting.err, self |-> None, rc |-> rc]
    ELSE
    LET size == get_size_class(output_size) IN
    IF size.err # NoError
    THEN [err |-> size.err, self |-> None, rc |-> rc]
    ELSE [err |-> NoError,
          self |-> << [output_format |-> output_format,
                       output_size |-> output_size,
                       output_fname |-> output_fname,
                       flag |-> flag,
                       figure |-> None,
                       formatting |-> formatting.val,
                       size |-> size.val] >>,
          rc |-> ApplyWrites(rc,
                    set_matplotlib_global_parameters(formatting.val,
                                                     size.val))]

\* EasyPlotter.from_argv: the four length tests bind the locals; for any
\* other length the locals are unbound when cls(...) reads them.
from_argv(rc, argv, default_formatting, default_type, default_flag) ==
    LET n == Len(argv) IN
    IF n \notin {1, 2, 3, 4}
    THEN [err |-> UnboundLocalError, self |-> None, rc |-> rc]
    ELSE
    LET output_fname == IF n = 1 THEN argv[1] \o "." \o default_type
                        ELSE argv[2]
        output_formatting == IF n \in {3, 4} THEN argv[3]
                             ELSE default_formatting
        flag == IF n = 4 THEN argv[4] ELSE default_flag
    IN  EasyPlotter_init(rc, output_fname, output_formatting, flag)

\* Figure(figsize=(width, height)): a new figure object, identified by id,
\* with no axes yet.
Figure(id, width, height) ==
    [id |-> id, figsize |-> <<width, height>>, axes |-> <<>>]

\* Variant of normal_figure: it also resets the flag to its default.
normal_figure_resets_flag(self, height, id) ==
    LET width == self.size.normal_figure_width
        h == IF height = None
             THEN self.size.normal_figure_default_height
             ELSE height
        fig == Figure(id, width, h)
    IN  [self |-> [self EXCEPT !.figure = <<fig>>, !.flag = init_default_flag],
         ret |-> fig]

\* EasyPlotter.normal_figure: self after the call and the returned figure.
normal_figure(self, height, id) ==
    LET width == self.size.normal_figure_width
        h == IF height = None
             THEN self.size.normal_figure_default_height
             ELSE height
        fig == Figure(id, width, h)
    IN  [self |-> [self EXCEPT !.figure = <<fig>>], ret |-> fig]

\* Variant of normal_figure_single_ax: the figure is made without going
\* through normal_figure, so self.figure is not set.
normal_figure_single_ax_unstored(self, height, id) ==
    LET h == IF height = None
             THEN self.size.normal_figure_default_height
             ELSE height
        fig == [Figure(id, self.size.normal_figure_width, h)
                   EXCEPT !.axes = Append(@, 111)]
    IN  [self |-> self, ret |-> [figure |-> fig.id, geometry |-> 111]]

\* EasyPlotter.normal_figure_single_ax: fig.add_subplot(111) adds the axes
\* to the figure that self.figure refers to; the axes is returned.
normal_figure_single_ax(self, height, id) ==
    LET r == normal_figure(self, height, id)
        fig == [r.ret EXCEPT !.axes = Append(@, 111)]
        ax == [figure |-> fig.id, geometry |-> 111]
    IN  [self |-> [r.self EXCEPT !.figure = <<fig>>], ret |-> ax]

\* Variant of wide_figure: the width is read from normal_figure_width.
wide_figure_normal_width(self, height, id) ==
    LET width == self.size.normal_figure_width
        h == IF height = None
             THEN self.size.wide_figure_default_height
             ELSE height
        fig == Figure(id, width, h)
    IN  [self |-> [self EXCEPT !.figure = <<fig>>], ret |-> fig]

\* EasyPlotter.wide_figure
wide_figure(self, height, id) ==
    LET width == self.size.wide_figure_width
        h == IF height = None
             THEN self.size.wide_figure_default_height
             ELSE height
        fig == Figure(id, width, h)
    IN  [self |-> [self EXCEPT !.figure = <<fig>>], ret |-> fig]

\* FigureCanvasAgg(figure) is the plotting library's.  Given None, a release
\* whose constructor calls figure.set_canvas(self) raises AttributeError
\* ("dereferences"); a release whose constructor replaces None by a new empty
\* Figure() returns a canvas for that empty figure ("substitutes").  The
\* repository pins no release, so both are outcomes of save.
CanvasOnNone == {"dereferences", "substitutes"}

EmptyFigure == [id |-> 0, figsize |-> None, axes |-> <<>>]

FigureCanvasAgg(figure, lib) ==
    IF figure # None THEN Returned(figure[1])
    ELSE IF lib = "dereferences" THEN Raised(AttributeError)
    ELSE Returned(EmptyFigure)

\* EasyPlotter.save: the exception raised (or NoError) and the print_figure
\* calls made, each [fname, figure, dpi].
save(self, dpi, lib) ==
    LET canvas == FigureCanvasAgg(self.figure, lib) IN
    IF canvas.err # NoError
    THEN [err |-> canvas.err, out |-> <<>>]
    ELSE [err |-> NoError,
          out |-> << [fname |-> self.output_fname,
                      figure |-> canvas.val,
                      dpi |-> dpi] >>]

-----------------------------------------------------------------------------
(* Inputs *)

\* Format strings of 1..MaxTokens comma-separated tokens: a style name or
\* bogus first, a size name or bogus second, bogus after that; and the
\* empty string, a trailing comma and the two names in the wrong order.
FormatTokens ==
    {t \in UNION {[1..n -> {latex, matlab, revtex, a0poster, bogus}] :
                    n \in 1..MaxTokens} :
        /\ t[1] \in {latex, matlab, bogus}
        /\ Len(t) >= 2 => t[2] \in {revtex, a0poster, bogus}
        /\ \A i \in 3..Len(t) : t[i] = bogus}
    \cup {<< <<>> >>, <<latex, <<>> >>, <<revtex, latex>>}

FormatSpecs == {join(t) : t \in FormatTokens}

Registered ==
    {join(<<a, b>>) : a \in {latex, matlab}, b \in {revtex, a0poster}}

Heights == {None, <<10, 1>>}
\* The positional arguments of save: none, or a resolution.
SaveArgs == {<<>>, <<72>>}

\* The calls EasyPlotter(fname[, formatting[, flag]]) as <<number of
\* arguments given, formatting, flag>>; a parameter not given takes its
\* declared default.
InitCalls ==
    {<<1, init_default_output_formatting, init_default_flag>>} \cup
    {<<2, f, init_default_flag>> : f \in FormatSpecs} \cup
    {<<3, join(<<matlab, a0poster>>), "do_legend">>}

\* The constructor calls of the facade life cycle: every registered pair,
\* one malformed format string and one unknown style.
LifeCalls ==
    {<<1, init_default_output_formatting, init_default_flag>>,
     <<2, join(<<matlab, revtex>>), init_default_flag>>,
     <<2, join(<<latex, a0poster>>), init_default_flag>>,
     <<3, join(<<matlab, a0poster>>), "do_legend">>,
     <<2, latex, init_default_flag>>,
     <<2, join(<<bogus, revtex>>), init_default_flag>>}

\* sys.argv-like vectors of length n.
Argv(n, fmt, flag) ==
    [i \in 1..n |->
        CASE i = 1 -> "prog"
          [] i = 2 -> "x.pdf"
          [] i = 3 -> fmt
          [] i = 4 -> flag
          [] OTHER -> "extra"]

\* The calls from_argv(argv[, default_formatting][, default_type]) as
\* <<argv, default_formatting, default_type>>.
ArgvCalls ==
    {<<Argv(n, f, "do_legend"), from_argv_default_formatting,
       from_argv_default_type>> :
        n \in 0..MaxArgv,
        f \in {join(<<latex, revtex>>), join(<<matlab, a0poster>>), latex}}
    \cup
    {<<Argv(n, latex, "do_legend"), init_default_output_formatting, t>> :
        n \in 1..2, t \in {from_argv_default_type, "png"}}
    \cup
    {<<Argv(1, latex, "do_legend"), from_argv_default_formatting, "png">>}

-----------------------------------------------------------------------------
(* State machine *)

\* Threads that each construct one facade.  A thread is idle, or inside
\* set_matplotlib_global_parameters having made `written` of its
\* assignments to matplotlib.rcParams ("writing"), or back from __init__
\* ("done").  self is the object under construction; overlapped records
\* that the thread made an assignment while the other thread was between
\* its first and its last one.
Threads == {"t1", "t2"}

IdleThread ==
    [stage |-> "idle", self |-> None, written |-> 0, overlapped |-> FALSE]

Init ==
    /\ rcParams = rcParamsDefault
    /\ plotters = <<>>
    /\ nfigures = 0
    /\ printed = <<>>
    /\ ncalls = 0
    /\ last = [op |-> "start", self |-> 0, args |-> <<>>,
               err |-> NoError, ret |-> None]
    /\ threads = [t \in Threads |-> IdleThread]

\* A call that returns counts towards MaxCalls; one that raises changes
\* nothing but what it had changed before raising.  The call is made by the
\* script itself, with no construction under way in another thread.
Counted(err) ==
    /\ err = NoError => ncalls < MaxCalls
    /\ ncalls' = IF err = NoError THEN ncalls + 1 ELSE ncalls
    /\ UNCHANGED threads

\* plotter = EasyPlotter("x.pdf"[, formatting[, flag]])
Construct(calls) ==
    \E c \in calls :
        LET r == EasyPlotter_init(rcParams, "x.pdf", c[2], c[3]) IN
        /\ Counted(r.err)
        /\ r.err = NoError => Len(plotters) < MaxPlotters
        /\ rcParams' = r.rc
        /\ plotters' = plotters \o r.self
        /\ last' = [op |-> "__init__",
                    self |-> IF r.err = NoError THEN Len(plotters) + 1 ELSE 0,
                    args |-> <<"x.pdf", c[2], c[3], c[1]>>,
                    err |-> r.err, ret |-> None]
        /\ UNCHANGED <<nfigures, printed>>

\* plotter = EasyPlotter.from_argv(argv[, default_formatting][, default_type])
FromArgv(calls) ==
    \E c \in calls :
        LET r == from_argv(rcParams, c[1], c[2], c[3], from_argv_default_flag)
        IN
        /\ Counted(r.err)
        /\ r.err = NoError => Len(plotters) < MaxPlotters
        /\ rcParams' = r.rc
        /\ plotters' = plotters \o r.self
        /\ last' = [op |-> "from_argv",
                    self |-> IF r.err = NoError THEN Len(plotters) + 1 ELSE 0,
                    args |-> <<c[1], c[2], c[3], from_argv_default_flag>>,
                    err |-> r.err, ret |-> None]
        /\ UNCHANGED <<nfigures, printed>>

\* Variant of the normal_figure call: the facade applies its style to the
\* global configuration again before it makes the figure.
NormalFigure_reapplies_style ==
    \E i \in DOMAIN plotters, height \in Heights :
        LET r == normal_figure(plotters[i], height, nfigures + 1) IN
        /\ Counted(NoError)
        /\ nfigures' = nfigures + 1
        /\ plotters' = [plotters EXCEPT ![i] = r.self]
        /\ last' = [op |-> "normal_figure", self |-> i, args |-> <<height>>,
                    err |-> NoError, ret |-> <<r.ret>>]
        /\ rcParams' = ApplyWrites(rcParams,
                          set_matplotlib_global_parameters(
                              plotters[i].formatting, plotters[i].size))
        /\ UNCHANGED printed

\* fig = plotter.normal_figure([height])
NormalFigure ==
    \E i \in DOMAIN plotters, height \in Heights :
        LET r == normal_figure(plotters[i], height, nfigures + 1) IN
        /\ Counted(NoError)
        /\ nfigures' = nfigures + 1
        /\ plotters' = [plotters EXCEPT ![i] = r.self]
        /\ last' = [op |-> "normal_figure", self |-> i, args |-> <<height>>,
                    err |-> NoError, ret |-> <<r.ret>>]
        /\ UNCHANGED <<rcParams, printed>>

\* ax = plotter.normal_figure_single_ax([height])
NormalFigureSingleAx ==
    \E i \in DOMAIN plotters, height \in Heights :
        LET r == normal_figure_single_ax(plotters[i], height, nfigures + 1) IN
        /\ Counted(NoError)
        /\ nfigures' = nfigures + 1
        /\ plotters' = [plotters EXCEPT ![i] = r.self]
        /\ last' = [op |-> "normal_figure_single_ax", self |-> i,
                    args |-> <<height>>, err |-> NoError, ret |-> <<r.ret>>]
        /\ UNCHANGED <<rcParams, printed>>

\* fig = plotter.wide_figure([height])
WideFigure ==
    \E i \in DOMAIN plotters, height \in Heights :
        LET r == wide_figure(plotters[i], height, nfigures + 1) IN
        /\ Counted(NoError)
        /\ nfigures' = nfigures + 1
        /\ plotters' = [plotters EXCEPT ![i] = r.self]
        /\ last' = [op |-> "wide_figure", self |-> i, args |-> <<height>>,
                    err |-> NoError, ret |-> <<r.ret>>]
        /\ UNCHANGED <<rcParams, printed>>

\* plotter.save([dpi])
Save ==
    \E i \in DOMAIN plotters, args \in SaveArgs, lib \in CanvasOnNone :
        LET dpi == IF args = <<>> THEN save_default_dpi ELSE args[1]
            r == save(plotters[i], dpi, lib)
        IN
        /\ Counted(r.err)
        /\ printed' = printed \o r.out
        /\ last' = [op |-> "save", self |-> i, args |-> args,
                    err |-> r.err, ret |-> None]
        /\ UNCHANGED <<rcParams, plotters, nfigures>>

ConstructLife == Construct(LifeCalls)

\* The life cycle of facades in one process.
Next ==
    \/ ConstructLife
    \/ NormalFigure
    \/ NormalFigureSingleAx
    \/ WideFigure
    \/ Save

Spec == Init /\ [][Next]_vars

ConstructAny == Construct(InitCalls)
FromArgvAny == FromArgv(ArgvCalls)

\* Constructions alone, over every format string and argument vector.
NextArgs ==
    \/ ConstructAny
    \/ FromArgvAny

SpecArgs == Init /\ [][NextArgs]_vars

\* The constructor calls of the racing threads: every registered pair.
RaceCalls == {<<2, f, init_default_flag>> : f \in Registered}

\* The assignments to matplotlib.rcParams that thread t makes, in order.
ThreadWrites(th) ==
    set_matplotlib_global_parameters(th.self[1].formatting, th.self[1].size)

\* Thread t enters EasyPlotter("x.pdf", formatting): the statements of
\* __init__ before set_matplotlib_global_parameters touch only the new
\* object.
RaceStart ==
    \E t \in Threads, c \in RaceCalls :
        LET r == EasyPlotter_init(rcParams, "x.pdf", c[2], c[3]) IN
        /\ threads[t].stage = "idle"
        /\ r.err = NoError
        /\ threads' = [threads EXCEPT ![t] =
                          [stage |-> "writing", self |-> r.self,
                           written |-> 0, overlapped |-> FALSE]]
        /\ UNCHANGED <<rcParams, plotters, nfigures, printed, ncalls, last>>

\* Thread t executes its next matplotlib.rcParams[key] = value; after the
\* last one __init__ returns and the facade exists.
RaceWrite ==
    \E t \in Threads :
        LET th == threads[t]
            writes == ThreadWrites(th)
            w == writes[th.written + 1]
            finished == th.written + 1 = Len(writes)
            midway == \E u \in Threads \ {t} :
                         /\ threads[u].stage = "writing"
                         /\ threads[u].written >= 1
        IN
        /\ th.stage = "writing"
        /\ rcParams' = [rcParams EXCEPT ![w[1]] = w[2]]
        /\ threads' = [threads EXCEPT ![t] =
                          [stage |-> IF finished THEN "done" ELSE "writing",
                           self |-> th.self,
                           written |-> th.written + 1,
                           overlapped |-> th.overlapped \/ midway]]
        /\ plotters' = IF finished THEN plotters \o th.self ELSE plotters
        /\ last' = IF finished
                   THEN [op |-> "__init__", self |-> Len(plotters) + 1,
                         args |-> <<"x.pdf", join(<<th.self[1].output_format,
                                                    th.self[1].output_size>>),
                                    th.self[1].flag, 2>>,
                         err |-> NoError, ret |-> None]
                   ELSE last
        /\ UNCHANGED <<nfigures, printed, ncalls>>

\* Two threads of one process, each constructing one facade.
NextRace ==
    \/ RaceStart
    \/ RaceWrite

SpecRace == Init /\ [][NextRace]_vars

-----------------------------------------------------------------------------
(* Vocabulary of the claims *)

FormatError == ValueError
NotFoundError == KeyError
NoFigureError == AttributeError

\* n/d = m/e
RatEq(a, b) == a[1] * b[2] = b[1] * a[2]

Commas(s) == {i \in DOMAIN s : s[i] = ","}

\* The text before and after the only comma of s.
BeforeComma(s) == SubSeq(s, 1, (CHOOSE i \in Commas(s) : TRUE) - 1)
AfterComma(s) == SubSeq(s, (CHOOSE i \in Commas(s) : TRUE) + 1, Len(s))

IsConstruction(l) == l.op \in {"__init__", "from_argv"}
IsFigureCall(l) == l.op \in {"normal_figure", "normal_figure_single_ax",
                             "wide_figure"}

-----------------------------------------------------------------------------
(* C1 *)

\* C1: every from_argv call with an argument vector of length 1 to 4 (the
\* keyword defaults left as declared, apart from default_type) returns a
\* facade whose filename, format and flag are the positional values given,
\* the missing ones being "<program-name>.<default_type>", "latex,revtex"
\* and the default flag.
C1_FromArgvDefaults ==
    (/\ last.op = "from_argv"
     /\ Len(last.args[1]) \in 1..4
     /\ last.args[2] = from_argv_default_formatting
     /\ Len(last.args[1]) >= 3 => last.args[1][3] \in Registered)
    =>
    LET argv == last.args[1]
        n == Len(argv)
    IN  /\ last.err = NoError
        /\ last.self \in DOMAIN plotters
        /\ LET p == plotters[last.self] IN
           /\ p.output_fname = IF n = 1 THEN "prog." \o last.args[3]
                               ELSE argv[2]
           /\ <<p.output_format, p.output_size>> =
                 IF n >= 3 THEN <<BeforeComma(argv[3]), AfterComma(argv[3])>>
                 ELSE <<latex, revtex>>
           /\ p.flag = IF n = 4 THEN argv[4] ELSE "default"

-----------------------------------------------------------------------------
(* C2 *)

\* C2: a save on a facade that has had no figure created since its
\* construction fails with NoFigureError and makes no print_figure call
\* (nothing is rasterized or written).
C2_SaveWithoutFigure ==
    [][(/\ last'.op = "save"
        /\ plotters[last'.self].figure = None)
       => (/\ last'.err = NoFigureError
           /\ printed' = printed)]_vars

-----------------------------------------------------------------------------
(* C3 *)

\* C3: the constructor fails with FormatError exactly when its format string
\* does not hold exactly one comma; when it holds exactly one and the
\* construction succeeds, the facade's style name is the text before the
\* comma and its size name the text after it.
C3_FormatErrorIffNotTwoTokens ==
    last.op = "__init__" =>
        /\ last.err = FormatError <=> Cardinality(Commas(last.args[2])) # 1
        /\ last.err = NoError =>
              /\ plotters[last.self].output_format = BeforeComma(last.args[2])
              /\ plotters[last.self].output_size = AfterComma(last.args[2])

\* A constructor call with two commas in its format string has failed.
C3_Witness ==
    /\ last.op = "__init__"
    /\ Cardinality(Commas(last.args[2])) = 2
    /\ last.err = FormatError

-----------------------------------------------------------------------------
(* C4 *)

\* C4: a constructor call whose format string holds exactly one comma
\* succeeds if and only if the text before the comma is latex or matlab and
\* the text after it is revtex or a0poster; otherwise it fails with
\* NotFoundError and the process holds the same facades as before.
C4_SucceedsIffRegistered ==
    [][(/\ last'.op = "__init__"
        /\ Cardinality(Commas(last'.args[2])) = 1)
       => LET style == BeforeComma(last'.args[2])
              size == AfterComma(last'.args[2])
              known == /\ style \in {latex, matlab}
                       /\ size \in {revtex, a0poster}
          IN  /\ last'.err = NoError <=> known
              /\ known => /\ Len(plotters') = Len(plotters) + 1
                          /\ last'.self = Len(plotters')
              /\ ~known => /\ last'.err = NotFoundError
                           /\ plotters' = plotters]_vars

\* A constructor call with a registered style and an unknown size has failed
\* with NotFoundError.
C4_Witness ==
    /\ last.op = "__init__"
    /\ Cardinality(Commas(last.args[2])) = 1
    /\ BeforeComma(last.args[2]) \in {latex, matlab}
    /\ AfterComma(last.args[2]) \notin {revtex, a0poster}
    /\ last.err = NotFoundError

-----------------------------------------------------------------------------
(* C5 *)

\* The widths and default heights of the claim, by size name.
C5_NormalWidth(size_name) ==
    IF size_name = revtex THEN <<243, 72>> ELSE <<700, 72>>
C5_NormalHeight(size_name) ==
    IF size_name = revtex THEN <<2, 1>> ELSE <<500, 72>>
C5_WideWidth(size_name) ==
    IF size_name = revtex THEN <<482, 72>> ELSE <<1400, 72>>
C5_WideHeight(size_name) ==
    IF size_name = revtex THEN <<4, 1>> ELSE <<500, 72>>

\* C5: on a facade of any style, normal_figure returns a figure as wide as
\* its size's normal width (revtex 243/72, a0poster 700/72) and wide_figure
\* one as wide as its wide width (482/72, 1400/72); the height is the one
\* given, or without one the size's default (2 and 4, 500/72 and 500/72).
C5_FigureDimensions ==
    last.op \in {"normal_figure", "wide_figure"} =>
        LET size_name == plotters[last.self].output_size
            fig == last.ret[1]
            height == last.args[1]
            normal == last.op = "normal_figure"
        IN  /\ size_name \in {revtex, a0poster}
            /\ RatEq(fig.figsize[1],
                     IF normal THEN C5_NormalWidth(size_name)
                     ELSE C5_WideWidth(size_name))
            /\ RatEq(fig.figsize[2],
                     IF height # None THEN height
                     ELSE IF normal THEN C5_NormalHeight(size_name)
                     ELSE C5_WideHeight(size_name))

\* wide_figure(height=10) has just returned on a matlab,a0poster facade.
C5_Witness ==
    /\ last.op = "wide_figure"
    /\ last.args[1] = <<10, 1>>
    /\ plotters[last.self].output_format = matlab
    /\ plotters[last.self].output_size = a0poster
    /\ last.ret[1].figsize = <<C5_WideWidth(a0poster), <<10, 1>> >>

-----------------------------------------------------------------------------
(* C6 *)

\* C6: a figure-creation call makes a new figure the facade's current one
\* (for normal_figure_single_ax, the figure the returned axes belongs to);
\* no other call changes any facade's current figure; and a save on a facade
\* with a current figure makes exactly one print_figure call, of that
\* figure, to the facade's filename, at the resolution given or at 300.
C6_CurrentIsMostRecent ==
    [][/\ \A i \in DOMAIN plotters :
            IF IsFigureCall(last') /\ last'.self = i
            THEN /\ Len(plotters'[i].figure) = 1
                 /\ plotters'[i].figure[1].id = nfigures'
                 /\ nfigures' > nfigures
                 /\ \A j \in DOMAIN plotters :
                       plotters[j].figure # None =>
                          plotters[j].figure[1].id < nfigures'
                 /\ IF last'.op = "normal_figure_single_ax"
                    THEN last'.ret[1].figure = nfigures'
                    ELSE last'.ret = plotters'[i].figure
            ELSE plotters'[i].figure = plotters[i].figure
       /\ (last'.op = "save" /\ plotters[last'.self].figure # None) =>
            printed' = Append(printed,
                [fname |-> plotters[last'.self].output_fname,
                 figure |-> plotters[last'.self].figure[1],
                 dpi |-> IF last'.args = <<>> THEN 300
                         ELSE last'.args[1]])]_vars

\* A facade whose second figure is current has been saved with no
\* resolution given.
C6_Witness ==
    /\ last.op = "save"
    /\ last.args = <<>>
    /\ plotters[last.self].figure # None
    /\ plotters[last.self].figure[1].id = 2
    /\ Len(printed) = 1
    /\ printed[1].figure.id = 2
    /\ printed[1].dpi = 300

-----------------------------------------------------------------------------
(* C7 *)

\* The claim's table: font size, title size and line width by style and size.
C7_Fontsize(style, size) ==
    IF size = revtex THEN (IF style = matlab THEN <<7, 1>> ELSE <<8, 1>>)
    ELSE (IF style = matlab THEN <<14, 1>> ELSE <<16, 1>>)
C7_Titlesize(style, size) ==
    IF size = revtex THEN (IF style = matlab THEN <<8, 1>> ELSE <<9, 1>>)
    ELSE (IF style = matlab THEN <<16, 1>> ELSE <<18, 1>>)
C7_Linewidth(style, size) ==
    IF size = revtex THEN <<4, 10>> ELSE <<1, 1>>

\* C7: right after a successful construction the global line width, patch,
\* axes and grid line widths equal the size's line width for the style, the
\* base font size its font size and the axes title size its title size.
C7_GlobalsAfterConstruct ==
    (IsConstruction(last) /\ last.err = NoError) =>
        LET style == plotters[last.self].output_format
            size == plotters[last.self].output_size
        IN  /\ \A k \in {"lines.linewidth", "patch.linewidth",
                         "axes.linewidth", "grid.linewidth"} :
                  /\ Len(rcParams[k]) = 2
                  /\ RatEq(rcParams[k], C7_Linewidth(style, size))
            /\ RatEq(rcParams["font.size"], C7_Fontsize(style, size))
            /\ Len(rcParams["axes.titlesize"]) = 2
            /\ RatEq(rcParams["axes.titlesize"], C7_Titlesize(style, size))

\* A matlab,revtex facade has just been constructed: title size 8, not 7.
C7_Witness ==
    /\ IsConstruction(last)
    /\ last.err = NoError
    /\ plotters[last.self].output_format = matlab
    /\ plotters[last.self].output_size = revtex
    /\ rcParams["axes.titlesize"] = <<8, 1>>

-----------------------------------------------------------------------------
(* C8 *)

\* C8: a successful constructor call stores the flag and the filename it was
\* given; no later call changes the flag, filename, style or size of any
\* facade; and what a figure call or a save does to a facade is what it
\* does to the same facade carrying any other flag.
C8_FlagPassThrough ==
    [][/\ (last'.op = "__init__" /\ last'.err = NoError) =>
            /\ plotters'[last'.self].flag = last'.args[3]
            /\ plotters'[last'.self].output_fname = last'.args[1]
       /\ \A i \in DOMAIN plotters :
            /\ plotters'[i].flag = plotters[i].flag
            /\ plotters'[i].output_fname = plotters[i].output_fname
            /\ plotters'[i].output_format = plotters[i].output_format
            /\ plotters'[i].output_size = plotters[i].output_size
            /\ plotters'[i].formatting = plotters[i].formatting
            /\ plotters'[i].size = plotters[i].size
       /\ (IsFigureCall(last') \/ last'.op = "save") =>
            \A g \in {"default", "do_legend", "other"} :
                LET i == last'.self
                    q == [plotters[i] EXCEPT !.flag = g]
                    id == nfigures + 1
                    r == CASE last'.op = "normal_figure" ->
                                normal_figure(q, last'.args[1], id)
                           [] last'.op = "normal_figure_single_ax" ->
                                normal_figure_single_ax(q, last'.args[1], id)
                           [] last'.op = "wide_figure" ->
                                wide_figure(q, last'.args[1], id)
                           [] OTHER -> [self |-> q, ret |-> None]
                IN  /\ r.self = [plotters'[i] EXCEPT !.flag = g]
                    /\ IsFigureCall(last') => <<r.ret>> = last'.ret
                    /\ last'.op = "save" =>
                          \E lib \in CanvasOnNone :
                              LET w == save(q, IF last'.args = <<>>
                                               THEN save_default_dpi
                                               ELSE last'.args[1], lib)
                              IN  /\ w.err = last'.err
                                  /\ printed' = printed \o w.out]_vars

\* A facade constructed with the flag do_legend has had a figure created and
\* has been saved, and still carries the flag.
C8_Witness ==
    /\ last.op = "save"
    /\ last.err = NoError
    /\ plotters[last.self].flag = "do_legend"
    /\ plotters[last.self].figure # None
    /\ Len(printed) = 1

-----------------------------------------------------------------------------
(* C9 *)

\* C9: a construction that fails with FormatError or NotFoundError leaves
\* the global rendering configuration as it was before the call.
C9_FailedConstructKeepsGlobals ==
    [][(IsConstruction(last') /\ last'.err \in {FormatError, NotFoundError})
       => rcParams' = rcParams]_vars

\* A constructor call naming a registered style and an unknown size has
\* failed in a process whose configuration an earlier facade had set.
C9_Witness ==
    /\ last.op = "__init__"
    /\ last.err = NotFoundError
    /\ Cardinality(Commas(last.args[2])) = 1
    /\ BeforeComma(last.args[2]) = matlab
    /\ Len(plotters) = 1
    /\ plotters[1].output_format = latex
    /\ rcParams["text.usetex"] = TRUE

-----------------------------------------------------------------------------
(* C10 *)

\* C10: no figure-creation call and no save changes the global rendering
\* configuration.
C10_OnlyConstructWritesGlobals ==
    [][(IsFigureCall(last') \/ last'.op = "save")
       => rcParams' = rcParams]_vars

\* A figure has been created on the first of two facades of different
\* styles, after the second was constructed.
C10_Witness ==
    /\ IsFigureCall(last)
    /\ last.self = 1
    /\ Len(plotters) = 2
    /\ plotters[1].output_format # plotters[2].output_format
    /\ plotters[1].output_size # plotters[2].output_size

-----------------------------------------------------------------------------
(* C12 *)

\* The globals the latex style writes and the matlab style does not.
C12_LatexOnlyKeys ==
    {"text.usetex", "font.family", "font.serif", "font.monospace",
     "xtick.major.width", "xtick.minor.width"}

\* C12: a successful construction with the matlab style leaves the
\* typesetting mode, the font family, the serif and monospace font lists and
\* the tick widths at the values they had before the call; so when the
\* earlier facade was a latex one, typesetting is still enabled, the family
\* still serif and the tick widths still that facade's line width.
C12_MatlabKeepsLatexResidue ==
    [][(/\ IsConstruction(last')
        /\ last'.err = NoError
        /\ plotters'[last'.self].output_format = matlab)
       => /\ \A k \in C12_LatexOnlyKeys : rcParams'[k] = rcParams[k]
          /\ (/\ plotters # <<>>
              /\ plotters[Len(plotters)].output_format = latex)
             => /\ rcParams'["text.usetex"] = TRUE
                /\ rcParams'["font.family"] = <<"serif">>
                /\ \A k \in {"xtick.major.width", "xtick.minor.width"} :
                      RatEq(rcParams'[k],
                            C7_Linewidth(latex,
                                plotters[Len(plotters)].output_size))]_vars

\* A matlab,revtex facade has been constructed after a latex,a0poster one:
\* the configuration differs from the one the same matlab,revtex construction
\* leaves in a fresh process, in the tick width (1, not 0.4 or the library's).
C12_Witness ==
    /\ last.op = "__init__"
    /\ last.err = NoError
    /\ Len(plotters) = 2
    /\ plotters[1].output_format = latex
    /\ plotters[1].output_size = a0poster
    /\ plotters[2].output_format = matlab
    /\ plotters[2].output_size = revtex
    /\ rcParams["text.usetex"] = TRUE
    /\ rcParams["font.family"] = <<"serif">>
    /\ rcParams["xtick.major.width"] = <<1, 1>>
    /\ rcParams["lines.linewidth"] = <<4, 10>>
    /\ rcParams # ApplyWrites(rcParamsDefault,
                      set_matplotlib_global_parameters(FormattingMatlab,
                                                       SizesRevtex))


-----------------------------------------------------------------------------
(* C11 *)

\* The facade thread t has constructed or is constructing.
C11_Facade(t) == threads[t].self[1]

C11_BothDone == \A t \in Threads : threads[t].stage = "done"

\* The configuration the construction of thread t leaves when it runs
\* alone, and the one the two constructions leave run one after the other.
C11_Alone(t) == ApplyWrites(rcParamsDefault, ThreadWrites(threads[t]))
C11_OneAfterTheOther(t, u) == ApplyWrites(C11_Alone(t), ThreadWrites(threads[u]))

C11_Sequential ==
    {C11_Alone(t) : t \in Threads}
        \cup {C11_OneAfterTheOther(t, u) : t \in Threads, u \in Threads}

C11_Differ(t, u) ==
    \/ C11_Facade(t).output_format # C11_Facade(u).output_format
    \/ C11_Facade(t).output_size # C11_Facade(u).output_size

\* C11: two constructions in two threads are racy only through the
\* interleaving of their individual global writes.  Once both have
\* returned, every width and size in the global configuration is that of
\* one of the two facades; if no write of one fell between the writes of
\* the other, or if the two facades have the same style and size, the
\* configuration is one that the constructions leave run one after the
\* other.  (The mixed configurations are the ones reached when the writes
\* interleave: C11_Witness.)
C11_RaceOnlyByInterleaving ==
    C11_BothDone =>
        /\ \A k \in {"lines.linewidth", "patch.linewidth",
                     "axes.linewidth", "grid.linewidth"} :
              \E t \in Threads :
                  RatEq(rcParams[k],
                        C7_Linewidth(C11_Facade(t).output_format,
                                     C11_Facade(t).output_size))
        /\ \E t \in Threads :
              RatEq(rcParams["font.size"],
                    C7_Fontsize(C11_Facade(t).output_format,
                                C11_Facade(t).output_size))
        /\ \E t \in Threads :
              RatEq(rcParams["axes.titlesize"],
                    C7_Titlesize(C11_Facade(t).output_format,
                                 C11_Facade(t).output_size))
        /\ (\A t \in Threads : ~threads[t].overlapped)
              => \E t, u \in Threads :
                    t # u /\ rcParams = C11_OneAfterTheOther(t, u)
        /\ (\A t, u \in Threads : ~C11_Differ(t, u))
              => \A t \in Threads : rcParams = C11_Alone(t)

\* Both constructions have returned, their writes having interleaved, and
\* the configuration is neither what one alone leaves nor what the two
\* leave in either order: the line width is one facade's and not the
\* other's, the font size the other's and not the first's.
C11_Witness ==
    /\ C11_BothDone
    /\ \E t \in Threads : threads[t].overlapped
    /\ rcParams \notin C11_Sequential
    /\ \E t, u \in Threads :
          /\ C11_Differ(t, u)
          /\ RatEq(rcParams["lines.linewidth"],
                   C7_Linewidth(C11_Facade(t).output_format,
                                C11_Facade(t).output_size))
          /\ ~RatEq(rcParams["lines.linewidth"],
                    C7_Linewidth(C11_Facade(u).output_format,
                                 C11_Facade(u).output_size))
          /\ RatEq(rcParams["font.size"],
                   C7_Fontsize(C11_Facade(u).output_format,
                               C11_Facade(u).output_size))
          /\ ~RatEq(rcParams["font.size"],
                    C7_Fontsize(C11_Facade(t).output_format,
                                C11_Facade(t).output_size))

====
